---- MODULE Spec2Model ----
(***************************************************************************)
(* The card generation workflow of the English Flash Cards Generator:      *)
(* POST /api/cards/generate (validateRequest, checkUserQuota, session      *)
(* insert, detached generateCardAsync with its failure callback), the      *)
(* OpenAIService pipeline (text, moderation, scene images, costs), and     *)
(* GET /api/cards/generation/[sessionId].                                  *)
(*                                                                         *)
(* The store follows the schema the route code writes to                   *)
(* (docs/architecture/security-and-performance.md: generation_type,        *)
(* ai_costs, completed_at without CHECK constraints); retry_count is the   *)
(* column of docs/implementation-guides/3-database-setup-script.md.        *)
(* supabase calls either return {data, error} or throw; both are inputs.   *)
(***************************************************************************)
EXTENDS Integers, Sequences, FiniteSets, TLC

\* ---------------------------------------------------------------- bounds
MaxRequests == 2
MaxScenes == 2
\* calls of the browser's card store (approve, regenerate, generate)
MaxCalls == 3

\* ------------------------------------------------------ program constants
FreeLimit == 5
EducatorLimit == 50
PremiumLimit == 200
MaxRetries == 3
\* calculateCosts, in millionths of a dollar
TokenCostMicro == 45
ImageCostMicro == 40000
\* completion.usage.total_tokens of one text generation
TextTokens == 1000

Users == {"u1", "u2"}
Anon == "anon"
NoRow == "no_row"
TierValues == {"free", "educator", "premium", "pro", "enterprise"}
Undefined == -1
NULL == "NULL"
Timestamp == "ts"
NoMessage == <<>>

\* --------------------------------------------------------------- messages
MsgNoContent == <<"No content generated">>
MsgParse == <<"Failed to parse AI response">>
MsgNoScenes == <<"Cannot read properties of undefined (reading 'map')">>
MsgAdapter == <<"Connection error.">>
MsgKey == <<"OPENAI_API_KEY environment variable is required">>
MsgSaveCard == <<"Failed to save card: ", "insert failed">>
MsgPolicyPrefix == <<"Content ", "policy violation", ": ">>
CategoryOrder == <<"hate", "violence">>

VARIABLES tier, priorToday, openaiKeySet, storeFaulty,
          sessions, cards, usage, reqs, pipe,
          skipPreview, poller, store, calls,
          approveResult, mockUserPreferences, prefs, modal

vars == <<tier, priorToday, openaiKeySet, storeFaulty,
          sessions, cards, usage, reqs, pipe,
          skipPreview, poller, store, calls,
          approveResult, mockUserPreferences, prefs, modal>>

\* the preferences route and page, and the preview modal, are not involved
PageQuiet == UNCHANGED <<mockUserPreferences, prefs, modal>>

\* the server leaves the browser's state alone
BrowserQuiet == UNCHANGED <<skipPreview, poller, store, calls>> /\ PageQuiet

\* the generate and status routes leave it alone, and the approve route's last answer
ClientQuiet == BrowserQuiet /\ UNCHANGED approveResult

\* ---------------------------------------------------------------- helpers
RECURSIVE JoinFlagged(_, _)
\* flaggedCategories.join(', ') over Object.entries(categories) in key order
JoinFlagged(cats, i) ==
    IF i > Len(CategoryOrder) THEN <<>>
    ELSE LET rest == JoinFlagged(cats, i + 1)
         IN IF CategoryOrder[i] \in cats
            THEN IF rest = <<>> THEN <<CategoryOrder[i]>>
                 ELSE <<CategoryOrder[i], ", ">> \o rest
            ELSE rest

\* `Content policy violation: ${flaggedCategories.join(', ')}`
PolicyMessage(cats) == MsgPolicyPrefix \o JoinFlagged(cats, 1)

SessionIds == 1..Len(sessions)

\* quotaLimits[tier as keyof typeof quotaLimits]
quotaLimits(t) ==
    CASE t = "free" -> FreeLimit
      [] t = "educator" -> EducatorLimit
      [] t = "premium" -> PremiumLimit
      [] OTHER -> Undefined

\* rows of generation_sessions of this user created today
TodaySessions(u) ==
    priorToday[u] + Cardinality({s \in SessionIds : sessions[s].user_id = u})

\* the limit compared with > instead of >=
checkUserQuotaOffByOne(u, tierLookup, countLookup) ==
    IF tierLookup = "throw" \/ countLookup = "throw"
    THEN [allowed |-> TRUE, limit |-> Undefined]
    ELSE LET row == IF tierLookup = "ok" /\ tier[u] # NoRow THEN tier[u] ELSE "free"
             dailyLimit == quotaLimits(row)
             todayCount == IF countLookup = "ok" THEN TodaySessions(u) ELSE 0
         IN IF dailyLimit # Undefined /\ todayCount > dailyLimit
            THEN [allowed |-> FALSE, limit |-> dailyLimit]
            ELSE [allowed |-> TRUE, limit |-> dailyLimit]

\* checkUserQuota: tierLookup, countLookup \in {"ok", "error", "throw"}
checkUserQuota(u, tierLookup, countLookup) ==
    IF tierLookup = "throw" \/ countLookup = "throw"
    THEN [allowed |-> TRUE, limit |-> Undefined]
    ELSE LET row == IF tierLookup = "ok" /\ tier[u] # NoRow THEN tier[u] ELSE "free"
             dailyLimit == quotaLimits(row)
             todayCount == IF countLookup = "ok" THEN TodaySessions(u) ELSE 0
         IN IF dailyLimit # Undefined /\ todayCount >= dailyLimit
            THEN [allowed |-> FALSE, limit |-> dailyLimit]
            ELSE [allowed |-> TRUE, limit |-> dailyLimit]

\* calculateCosts; total_cost_usd in ten-thousandths of a dollar (toFixed(4))
calculateCosts(textTokens, imageGenerations) ==
    [text_tokens |-> textTokens,
     image_generations |-> imageGenerations,
     total_cost_usd |->
        (textTokens * TokenCostMicro + imageGenerations * ImageCostMicro + 50) \div 100]

DefaultCosts == [text_tokens |-> 0, image_generations |-> 0, total_cost_usd |-> 0]

DefaultParams ==
    [difficulty_level |-> "beginner", age_group |-> "elementary",
     style_preference |-> "cartoon", language |-> "en"]

Payloads ==
    {[input_prompt |-> "elephant", card_type |-> "single_word",
      generation_params |-> DefaultParams]}

NoData == [input_prompt |-> "", card_type |-> "", generation_params |-> DefaultParams]

\* outcomes of a status write to generation_sessions
WriteOutcomes == IF storeFaulty THEN BOOLEAN ELSE {TRUE}

IdlePipe ==
    [pc |-> "idle", data |-> NoData, user |-> Anon, scenes |-> <<>>,
     err |-> NoMessage, card |-> 0, costs |-> DefaultCosts,
     calls |-> [text |-> 0, moderation |-> 0, images |-> 0],
     \* what the external services answered in this run
     textOutcome |-> "", modOutcome |-> "", modCats |-> {}, imgCalls |-> <<>>,
     usageOutcome |-> ""]

NoLookup == "-"

IdleReq ==
    [pc |-> "new", user |-> Anon, data |-> NoData, code |-> "", session |-> 0,
     tierLookup |-> NoLookup, countLookup |-> NoLookup, seen |-> 0, limit |-> Undefined]

\* ------------------------------------------- POST /api/cards/generate
\* validateRequest: the body is parsed first, the user is looked up second
validateRequest(who, bodyOk) ==
    IF ~bodyOk THEN "VALIDATION_ERROR"
    ELSE IF who = Anon THEN "UNAUTHORIZED"
    ELSE "ok"

NextReq(r) == reqs[r].pc = "new" /\ \A q \in 1..(r - 1) : reqs[q].pc # "new"

PostValidate(r) ==
    /\ NextReq(r)
    /\ \E who \in Users \cup {Anon}, bodyOk \in BOOLEAN, data \in Payloads :
         LET v == validateRequest(who, bodyOk)
         IN reqs' = [reqs EXCEPT ![r] =
                IF v = "ok"
                THEN [@ EXCEPT !.pc = "quota", !.user = who, !.data = data]
                ELSE [@ EXCEPT !.pc = "done", !.user = who, !.code = v]]
    /\ UNCHANGED <<tier, priorToday, openaiKeySet, storeFaulty, sessions, cards,
                   usage, pipe>>
    /\ ClientQuiet

Lookups == {"ok", "error", "throw"}

\* a handler that logs the exceeded quota and goes on to the insert
PostCheckQuotaNoThrow(r) ==
    /\ reqs[r].pc = "quota"
    /\ \E tl \in Lookups, cl \in Lookups :
         LET quotaCheck == checkUserQuota(reqs[r].user, tl, cl)
         IN reqs' = [reqs EXCEPT ![r] =
                [@ EXCEPT !.pc = "insert", !.tierLookup = tl, !.countLookup = cl,
                          !.seen = TodaySessions(reqs[r].user),
                          !.limit = quotaCheck.limit]]
    /\ UNCHANGED <<tier, priorToday, openaiKeySet, storeFaulty, sessions, cards,
                   usage, pipe>>
    /\ ClientQuiet

\* the quota step of request r when the two lookups end as tl and cl
CheckQuotaStep(r, tl, cl) ==
    /\ reqs[r].pc = "quota"
    /\ LET quotaCheck == checkUserQuota(reqs[r].user, tl, cl)
       IN reqs' = [reqs EXCEPT ![r] =
              IF quotaCheck.allowed
              THEN [@ EXCEPT !.pc = "insert", !.tierLookup = tl, !.countLookup = cl,
                             !.seen = TodaySessions(reqs[r].user),
                             !.limit = quotaCheck.limit]
              ELSE [@ EXCEPT !.pc = "done", !.code = "QUOTA_EXCEEDED",
                             !.tierLookup = tl, !.countLookup = cl,
                             !.seen = TodaySessions(reqs[r].user),
                             !.limit = quotaCheck.limit]]
    /\ UNCHANGED <<tier, priorToday, openaiKeySet, storeFaulty, sessions, cards,
                   usage, pipe>>
    /\ ClientQuiet

\* checkUserQuota, then throw QuotaExceededError or go on to the insert
PostCheckQuota(r) == \E tl \in Lookups, cl \in Lookups : CheckQuotaStep(r, tl, cl)

NewSession(u, data) ==
    [user_id |-> u,
     input_prompt |-> data.input_prompt,
     generation_type |->
        IF data.card_type = "single_word" THEN "single_word_card" ELSE "category_card",
     status |-> "pending",
     error_message |-> NoMessage,
     ai_costs |-> DefaultCosts,
     completed_at |-> NULL,
     retry_count |-> 0]

\* generateCardAsync up to its first await: new OpenAIService() throws outside the
\* try block when the key is missing, so only the caller's .catch sees it
StartPipe(u, data) ==
    IF openaiKeySet
    THEN [IdlePipe EXCEPT !.pc = "processing", !.data = data, !.user = u]
    ELSE [IdlePipe EXCEPT !.pc = "callback", !.data = data, !.user = u, !.err = MsgKey]

PostInsert(r) ==
    /\ reqs[r].pc = "insert"
    /\ \E ok \in WriteOutcomes :
         IF ok
         THEN /\ sessions' = Append(sessions, NewSession(reqs[r].user, reqs[r].data))
              /\ pipe' = Append(pipe, StartPipe(reqs[r].user, reqs[r].data))
              /\ reqs' = [reqs EXCEPT ![r] =
                    [IdleReq EXCEPT !.pc = "done", !.user = reqs[r].user,
                                    !.data = reqs[r].data, !.code = "OK",
                                    !.session = Len(sessions) + 1]]
         ELSE /\ reqs' = [reqs EXCEPT ![r] =
                    [IdleReq EXCEPT !.pc = "done", !.user = reqs[r].user,
                                    !.data = reqs[r].data,
                                    !.code = "INTERNAL_SERVER_ERROR"]]
              /\ UNCHANGED <<sessions, pipe>>
    /\ UNCHANGED <<tier, priorToday, openaiKeySet, storeFaulty, cards, usage>>
    /\ ClientQuiet

\* ------------------------------------------------- generateCardAsync
Quiet ==
    /\ UNCHANGED <<tier, priorToday, openaiKeySet, storeFaulty, reqs,
                   skipPreview, poller, store, calls, approveResult>>
    /\ PageQuiet

SetPipe(s, p) == pipe' = [pipe EXCEPT ![s] = p]

\* .update({...}).eq('id', sessionId): the row changes when the store accepts it
UpdateSession(s, ok, fields) ==
    sessions' = IF ok THEN [sessions EXCEPT ![s] = fields] ELSE sessions

\* await supabase...update({ status: 'processing' })
PipeProcessing(s) ==
    /\ pipe[s].pc = "processing"
    /\ \E ok \in WriteOutcomes :
         UpdateSession(s, ok, [sessions[s] EXCEPT !.status = "processing"])
    /\ SetPipe(s, [pipe[s] EXCEPT !.pc = "generate"])
    /\ Quiet
    /\ UNCHANGED <<cards, usage>>

TextOutcomes == {"ok", "api_error", "no_content", "unparseable", "no_scenes"}
ModOutcomes == {"pass", "flagged", "error"}
Categories == {CategoryOrder[i] : i \in 1..Len(CategoryOrder)}

\* a text step that falls back to empty content when the response does not parse
generateTextContentDefaults(outcome, n) ==
    CASE outcome = "ok" -> [ok |-> TRUE, err |-> NoMessage, scenes |-> n, tokens |-> TextTokens]
      [] outcome = "api_error" -> [ok |-> FALSE, err |-> MsgAdapter, scenes |-> 0, tokens |-> 0]
      [] outcome = "no_content" -> [ok |-> FALSE, err |-> MsgNoContent, scenes |-> 0, tokens |-> 0]
      [] outcome = "unparseable" -> [ok |-> TRUE, err |-> NoMessage, scenes |-> 0, tokens |-> TextTokens]
      [] outcome = "no_scenes" -> [ok |-> FALSE, err |-> MsgNoScenes, scenes |-> 0, tokens |-> 0]

\* generateTextContent: its failures, or the parsed content with usage.total_tokens
generateTextContent(outcome, n) ==
    CASE outcome = "ok" -> [ok |-> TRUE, err |-> NoMessage, scenes |-> n, tokens |-> TextTokens]
      [] outcome = "api_error" -> [ok |-> FALSE, err |-> MsgAdapter, scenes |-> 0, tokens |-> 0]
      [] outcome = "no_content" -> [ok |-> FALSE, err |-> MsgNoContent, scenes |-> 0, tokens |-> 0]
      [] outcome = "unparseable" -> [ok |-> FALSE, err |-> MsgParse, scenes |-> 0, tokens |-> 0]
      [] outcome = "no_scenes" -> [ok |-> FALSE, err |-> MsgNoScenes, scenes |-> 0, tokens |-> 0]

\* a moderation step that does not throw on a flag
moderateContentLogOnly(outcome, cats) ==
    CASE outcome = "pass" -> NoMessage
      [] outcome = "flagged" -> NoMessage
      [] outcome = "error" -> MsgAdapter

\* moderateContent: throws on a flag (naming the flagged categories) or on a failed call
moderateContent(outcome, cats) ==
    CASE outcome = "pass" -> NoMessage
      [] outcome = "flagged" -> PolicyMessage(cats)
      [] outcome = "error" -> MsgAdapter

\* a scene loop that pushes only the scenes whose image call succeeded
generateSceneImagesDropFailed(n, imgs) ==
    SelectSeq([i \in 1..n |-> [id |-> i, image_url |-> IF imgs[i] THEN "url" ELSE ""]],
              LAMBDA sc : sc.image_url # "")

\* generateSceneImages: every scene is pushed, with image_url '' when its call failed
generateSceneImages(n, imgs) ==
    [i \in 1..n |-> [id |-> i, image_url |-> IF imgs[i] THEN "url" ELSE ""]]

NoCalls == [text |-> 0, moderation |-> 0, images |-> 0]

\* generateCardContent: text, then moderation, then the scene images, then the costs;
\* any throw is rethrown with the same message. calls counts the API calls issued.
generateCardContent(text, n, mod, cats, imgs) ==
    LET textContent == generateTextContent(text, n)
        flagged == moderateContent(mod, cats)
        scenes == generateSceneImages(textContent.scenes, imgs)
    IN IF ~textContent.ok
       THEN [ok |-> FALSE, err |-> textContent.err, scenes |-> <<>>,
             costs |-> DefaultCosts,
             calls |-> [NoCalls EXCEPT !.text = 1]]
       ELSE IF flagged # NoMessage
       THEN [ok |-> FALSE, err |-> flagged, scenes |-> <<>>, costs |-> DefaultCosts,
             calls |-> [NoCalls EXCEPT !.text = 1, !.moderation = 1]]
       ELSE [ok |-> TRUE, err |-> NoMessage, scenes |-> scenes,
             costs |-> calculateCosts(textContent.tokens, Len(scenes)),
             calls |-> [text |-> 1, moderation |-> 1, images |-> Len(scenes)]]

\* one representative of the inputs the result does not depend on
Canonical(text, n, mod, cats) ==
    /\ text # "ok" => mod = "pass"
    /\ mod # "flagged" => cats = {}
    /\ (text # "ok" \/ mod # "pass") => n = 0

\* a generate step whose thrown error is swallowed: the card insert follows anyway
PipeGenerateNoRethrow(s) ==
    /\ pipe[s].pc = "generate"
    /\ \E text \in TextOutcomes, n \in 0..MaxScenes, mod \in ModOutcomes,
          cats \in SUBSET Categories :
         \E imgs \in [1..n -> BOOLEAN] :
            /\ Canonical(text, n, mod, cats)
            /\ LET cardContent == generateCardContent(text, n, mod, cats, imgs)
               IN SetPipe(s, [pipe[s] EXCEPT
                     !.pc = "insertCard",
                     !.err = cardContent.err,
                     !.scenes = cardContent.scenes,
                     !.costs = cardContent.costs,
                     !.calls = cardContent.calls,
                     !.textOutcome = text,
                     !.modOutcome = mod,
                     !.modCats = cats,
                     !.imgCalls = [i \in 1..n |-> imgs[i]]])
    /\ Quiet
    /\ UNCHANGED <<sessions, cards, usage>>

\* await openai.generateCardContent(...): no store access happens inside the call
PipeGenerate(s) ==
    /\ pipe[s].pc = "generate"
    /\ \E text \in TextOutcomes, n \in 0..MaxScenes, mod \in ModOutcomes,
          cats \in SUBSET Categories :
         \E imgs \in [1..n -> BOOLEAN] :
            /\ Canonical(text, n, mod, cats)
            /\ LET cardContent == generateCardContent(text, n, mod, cats, imgs)
               IN SetPipe(s, [pipe[s] EXCEPT
                     !.pc = IF cardContent.ok THEN "insertCard" ELSE "catch",
                     !.err = cardContent.err,
                     !.scenes = cardContent.scenes,
                     !.costs = cardContent.costs,
                     !.calls = cardContent.calls,
                     !.textOutcome = text,
                     !.modOutcome = mod,
                     !.modCats = cats,
                     !.imgCalls = [i \in 1..n |-> imgs[i]]])
    /\ Quiet
    /\ UNCHANGED <<sessions, cards, usage>>

NewCard(s, p) ==
    [user_id |-> p.user,
     session_id |-> s,
     title |-> p.data.input_prompt,
     card_type |-> p.data.card_type,
     content |-> [primary_word |-> p.data.input_prompt, scenes |-> p.scenes],
     generation_params |-> p.data.generation_params,
     status |-> "preview"]

\* a card insert whose cardError is logged and the pipeline goes on to completed
PipeInsertCardLogOnly(s) ==
    /\ pipe[s].pc = "insertCard"
    /\ \E ok \in BOOLEAN :
         IF ok
         THEN /\ cards' = Append(cards, NewCard(s, pipe[s]))
              /\ SetPipe(s, [pipe[s] EXCEPT
                    !.pc = "complete",
                    !.card = Len(cards) + 1])
         ELSE /\ SetPipe(s, [pipe[s] EXCEPT !.pc = "complete"])
              /\ UNCHANGED cards
    /\ Quiet
    /\ UNCHANGED <<sessions, usage>>

\* insert into flash_cards; cardError is thrown to the catch block
PipeInsertCard(s) ==
    /\ pipe[s].pc = "insertCard"
    /\ \E ok \in BOOLEAN :
         IF ok
         THEN /\ cards' = Append(cards, NewCard(s, pipe[s]))
              /\ SetPipe(s, [pipe[s] EXCEPT
                    !.pc = "complete",
                    !.card = Len(cards) + 1])
         ELSE /\ SetPipe(s, [pipe[s] EXCEPT !.pc = "catch", !.err = MsgSaveCard])
              /\ UNCHANGED cards
    /\ Quiet
    /\ UNCHANGED <<sessions, usage>>

\* update({ status: 'completed', ai_costs, completed_at }); updateError is logged
PipeComplete(s) ==
    /\ pipe[s].pc = "complete"
    /\ \E ok \in WriteOutcomes :
         UpdateSession(s, ok, [sessions[s] EXCEPT !.status = "completed",
                                                  !.ai_costs = pipe[s].costs,
                                                  !.completed_at = Timestamp])
    /\ SetPipe(s, [pipe[s] EXCEPT !.pc = "usage"])
    /\ Quiet
    /\ UNCHANGED <<cards, usage>>

\* updateUserUsage without its try/catch: a thrown upsert reaches the catch block
PipeUsageThrows(s) ==
    /\ pipe[s].pc = "usage"
    /\ \E outcome \in Lookups :
         /\ usage' = IF outcome = "ok"
                     THEN [usage EXCEPT ![pipe[s].user] =
                             [cards_generated |-> 1,
                              total_ai_cost |-> pipe[s].costs.total_cost_usd]]
                     ELSE usage
         /\ SetPipe(s, IF outcome = "throw"
                       THEN [pipe[s] EXCEPT !.pc = "catch", !.err = MsgAdapter,
                                            !.usageOutcome = outcome]
                       ELSE [pipe[s] EXCEPT !.pc = "done", !.usageOutcome = outcome])
    /\ Quiet
    /\ UNCHANGED <<sessions, cards>>

\* a usage update whose failure takes the completed status back
PipeUsageRollback(s) ==
    /\ pipe[s].pc = "usage"
    /\ \E outcome \in Lookups :
         /\ usage' = IF outcome = "ok"
                     THEN [usage EXCEPT ![pipe[s].user] =
                             [cards_generated |-> 1,
                              total_ai_cost |-> pipe[s].costs.total_cost_usd]]
                     ELSE usage
         /\ sessions' = IF outcome = "ok" THEN sessions
                        ELSE [sessions EXCEPT ![s] =
                                [@ EXCEPT !.status = "processing", !.completed_at = NULL,
                                          !.ai_costs = DefaultCosts]]
         /\ SetPipe(s, [pipe[s] EXCEPT !.pc = "done", !.usageOutcome = outcome])
    /\ Quiet
    /\ UNCHANGED cards

\* updateUserUsage: upsert of { cards_generated: 1, total_ai_cost }; never throws
PipeUsage(s) ==
    /\ pipe[s].pc = "usage"
    /\ \E outcome \in Lookups :
         /\ usage' = IF outcome = "ok"
                     THEN [usage EXCEPT ![pipe[s].user] =
                             [cards_generated |-> 1,
                              total_ai_cost |-> pipe[s].costs.total_cost_usd]]
                     ELSE usage
         /\ SetPipe(s, [pipe[s] EXCEPT !.pc = "done", !.usageOutcome = outcome])
    /\ Quiet
    /\ UNCHANGED <<sessions, cards>>

\* the failed write without completed_at
FailedFieldsNoTimestamp(s, msg) ==
    [sessions[s] EXCEPT !.status = "failed", !.error_message = msg]

\* .update({ status: 'failed', error_message, completed_at })
FailedFields(s, msg) ==
    [sessions[s] EXCEPT !.status = "failed", !.error_message = msg,
                        !.completed_at = Timestamp]

\* generateCardAsync's catch block: write failed, then rethrow
PipeCatch(s) ==
    /\ pipe[s].pc = "catch"
    /\ \E ok \in WriteOutcomes : UpdateSession(s, ok, FailedFields(s, pipe[s].err))
    /\ SetPipe(s, [pipe[s] EXCEPT !.pc = "callback"])
    /\ Quiet
    /\ UNCHANGED <<cards, usage>>

\* a failure callback that counts the failure and runs the pipeline again
FailureCallbackRetry(s) ==
    /\ pipe[s].pc = "callback"
    /\ sessions' = [sessions EXCEPT ![s] =
          [FailedFields(s, pipe[s].err) EXCEPT !.retry_count = @ + 1]]
    /\ SetPipe(s, [pipe[s] EXCEPT !.pc = "processing"])
    /\ Quiet
    /\ UNCHANGED <<cards, usage>>

\* POST's .catch on the promise of generateCardAsync
FailureCallback(s) ==
    /\ pipe[s].pc = "callback"
    /\ \E ok \in WriteOutcomes : UpdateSession(s, ok, FailedFields(s, pipe[s].err))
    /\ SetPipe(s, [pipe[s] EXCEPT !.pc = "done"])
    /\ Quiet
    /\ UNCHANGED <<cards, usage>>

\* ------------------------------- GET /api/cards/generation/[sessionId]
CardsOf(s) == SelectSeq(cards, LAMBDA c : c.session_id = s)

\* the query without .eq('user_id', user.id)
SelectSessionAnyUser(sid, u) ==
    IF sid \in SessionIds
    THEN <<[session |-> sessions[sid], cards |-> CardsOf(sid)]>>
    ELSE <<>>

\* .eq('id', sessionId).eq('user_id', user.id).single()
SelectSession(sid, u) ==
    IF sid \in SessionIds /\ sessions[sid].user_id = u
    THEN <<[session |-> sessions[sid], cards |-> CardsOf(sid)]>>
    ELSE <<>>

getSession(who, sid, bodyOk) ==
    LET v == validateRequest(who, bodyOk)
        found == SelectSession(sid, who)
    IN IF v # "ok" THEN [code |-> v, body |-> <<>>]
       ELSE IF found = <<>>
            THEN [code |-> "NOT_FOUND", body |-> <<>>]
            ELSE [code |-> "OK", body |-> found]

\* ------------------------ CardRepository.approveCard (server side)
\* CardStatus: the values flash_cards.status can hold
CardStatuses == {"generating", "preview", "approved", "downloaded"}

\* an approve that rejects a card that is not in preview
approveCardStrict(cs, cardId, userId) ==
    IF cardId \in 1..Len(cs) /\ cs[cardId].user_id = userId
          /\ cs[cardId].status = "preview"
    THEN [cards |-> [cs EXCEPT ![cardId].status = "approved"],
          card |-> <<[cs[cardId] EXCEPT !.status = "approved"]>>,
          error |-> FALSE]
    ELSE [cards |-> cs, card |-> <<>>, error |-> TRUE]

\* an approve whose update is filtered by the card id alone
approveCardAnyUser(cs, cardId, userId) ==
    IF cardId \in 1..Len(cs)
    THEN [cards |-> [cs EXCEPT ![cardId].status = "approved"],
          card |-> <<[cs[cardId] EXCEPT !.status = "approved"]>>,
          error |-> FALSE]
    ELSE [cards |-> cs, card |-> <<>>, error |-> TRUE]

\* update({ status: 'approved' }).eq('id', cardId).eq('user_id', userId).select().single()
approveCard(cs, cardId, userId) ==
    IF cardId \in 1..Len(cs) /\ cs[cardId].user_id = userId
    THEN [cards |-> [cs EXCEPT ![cardId].status = "approved"],
          card |-> <<[cs[cardId] EXCEPT !.status = "approved"]>>,
          error |-> FALSE]
    ELSE [cards |-> cs, card |-> <<>>, error |-> TRUE]

\* no approve call has been answered yet
NoApprove == [cardId |-> 0, userId |-> Anon, card |-> <<>>, error |-> FALSE]

\* POST /api/cards/{cardId}/approve of user u: the update, and what the caller gets
\* (the returned row, or the thrown 'Failed to approve card' error)
RepoApprove ==
    /\ \E c \in 1..Len(cards), u \in Users :
         LET result == approveCard(cards, c, u)
         IN /\ cards' = result.cards
            /\ approveResult' = [cardId |-> c, userId |-> u, card |-> result.card,
                                 error |-> result.error]
    /\ UNCHANGED <<tier, priorToday, openaiKeySet, storeFaulty, sessions, usage,
                   reqs, pipe>>
    /\ BrowserQuiet

\* --------------------------------- useCardStore of services/api/cards.ts
\* the card useCardGeneration.generateCard hands to the store
MockCard(id) ==
    [id |-> id, title |-> "Flash Card - Example", card_type |-> "single_word",
     generation_params |-> DefaultParams, status |-> "preview",
     updated_at |-> Timestamp]

\* one asynchronous call on the store: op is the call the user made, pc the await it
\* is parked at, local the card it holds in a local variable
IdleCall ==
    [op |-> "", pc |-> "done", cardId |-> 0, local |-> <<>>, made |-> 0,
     prefs |-> "", skip |-> FALSE, entered |-> FALSE]

CallIds == 1..Len(calls)

\* Date.now().toString() of the next card made in the browser
NextCardId == 1 + Cardinality({k \in CallIds : calls[k].made # 0})

openPreview(st, card) == [st EXCEPT !.previewCard = <<card>>, !.isPreviewOpen = TRUE]

closePreview(st) == [st EXCEPT !.isPreviewOpen = FALSE, !.previewCard = <<>>]

\* previewCard && previewCard.id === cardId
HoldsCard(st, cardId) == st.previewCard # <<>> /\ st.previewCard[1].id = cardId

\* approveCard up to its await: the guard, isDownloading, the approved card
approveCardBegin(st, cardId) ==
    IF ~HoldsCard(st, cardId)
    THEN [store |-> st, local |-> <<>>, entered |-> FALSE]
    ELSE LET updatedCard == [st.previewCard[1] EXCEPT !.status = "approved",
                                                     !.updated_at = Timestamp]
         IN [store |-> [st EXCEPT !.isDownloading = TRUE,
                                  !.previewCard = <<updatedCard>>],
             local |-> <<updatedCard>>, entered |-> TRUE]

\* approveCard after its await: the downloaded card, then finally isDownloading false
approveCardEnd(st, updatedCard) ==
    [st EXCEPT !.previewCard = <<[updatedCard EXCEPT !.status = "downloaded",
                                                    !.updated_at = Timestamp]>>,
               !.isDownloading = FALSE]

\* the finally block of the call the user made
Settle(st, op) ==
    CASE op = "regenerate" -> [st EXCEPT !.isRegenerating = FALSE]
      [] op = "generate" -> [st EXCEPT !.isGenerating = FALSE]
      [] OTHER -> st

ServerQuiet ==
    /\ UNCHANGED <<tier, priorToday, openaiKeySet, storeFaulty, sessions, cards, usage,
                   reqs, pipe, poller, approveResult>>
    /\ PageQuiet

\* everything but the store, its calls and the modal
CallQuiet ==
    UNCHANGED <<tier, priorToday, openaiKeySet, storeFaulty, sessions, cards, usage,
                reqs, pipe, poller, approveResult, mockUserPreferences, prefs,
                skipPreview>>

\* -------------------------------------------------------- PreviewModal
\* isProcessing, the store call the running handler awaits, and its last toast
IdleModal == [isProcessing |-> FALSE, call |-> 0, toast |-> ""]

\* the modal shows the store's preview card
Shown(st) == st.isPreviewOpen /\ st.previewCard # <<>>

isLoading(st) == st.previewCard[1].status = "generating"

isAnyActionLoading(st, m) == st.isDownloading \/ st.isRegenerating \/ m.isProcessing

Controls == {"close", "regenerate", "approve"}

\* controls that are never disabled
DisabledNever(st, m, control) == FALSE

\* isDisabled of the Close, Regenerate and Approve buttons
Disabled(st, m, control) == isAnyActionLoading(st, m)

\* the user can press the control: it is rendered and not disabled
Clickable(st, m, control) ==
    /\ Shown(st)
    /\ control # "close" => ~isLoading(st)
    /\ ~Disabled(st, m, control)

\* handleApprove after its await: toast and onClose, or the error toast; then finally
handleApproveDone(m, ok) ==
    [m EXCEPT !.isProcessing = FALSE, !.call = 0,
              !.toast = IF ok THEN "success" ELSE "error"]

\* handleRegenerate after its await: the info or the error toast; then finally
handleRegenerateDone(m, ok) ==
    [m EXCEPT !.isProcessing = FALSE, !.call = 0,
              !.toast = IF ok THEN "info" ELSE "error"]

\* the handler of the modal that awaits call k goes on when the call has settled
AfterCall(m, k, op, settled) ==
    IF m.call = k /\ settled
    THEN IF op = "approve" THEN handleApproveDone(m, TRUE)
         ELSE handleRegenerateDone(m, TRUE)
    ELSE m

\* onClose() of handleApprove, when the approve of the modal has resolved
ThenClose(m, k, op, st) ==
    IF m.call = k /\ op = "approve" THEN closePreview(st) ELSE st

\* the user (or a retried click) calls approveCard(cardId)
ApproveCall ==
    /\ Len(calls) < MaxCalls
    /\ \E c \in 1..MaxCalls :
         LET b == approveCardBegin(store, c)
         IN /\ store' = b.store
            /\ calls' = Append(calls,
                  [IdleCall EXCEPT !.op = "approve", !.cardId = c, !.local = b.local,
                                   !.entered = b.entered,
                                   !.pc = IF b.entered THEN "approveWait" ELSE "done"])
    /\ UNCHANGED skipPreview
    /\ ServerQuiet

\* the simulated download of approveCard resolves
ApproveFinish(k) ==
    /\ calls[k].pc = "approveWait"
    /\ store' = ThenClose(modal, k, calls[k].op,
                          Settle(approveCardEnd(store, calls[k].local[1]), calls[k].op))
    /\ calls' = [calls EXCEPT ![k].pc = "done"]
    /\ modal' = AfterCall(modal, k, calls[k].op, TRUE)
    /\ CallQuiet

\* regenerateCard(cardId) up to its await
RegenerateCall ==
    /\ Len(calls) < MaxCalls
    /\ \E c \in 1..MaxCalls :
         IF ~HoldsCard(store, c)
         THEN /\ calls' = Append(calls,
                    [IdleCall EXCEPT !.op = "regenerate", !.cardId = c])
              /\ UNCHANGED store
         ELSE /\ store' = closePreview([store EXCEPT !.isRegenerating = TRUE])
              /\ calls' = Append(calls,
                    [IdleCall EXCEPT !.op = "regenerate", !.cardId = c,
                                     !.local = store.previewCard, !.entered = TRUE,
                                     !.pc = "regenWait"])
    /\ UNCHANGED skipPreview
    /\ ServerQuiet

\* regenerateCard after its await: the new card, then handleGenerationComplete up to
\* its request for the preferences
RegenerateMake(k) ==
    /\ calls[k].pc = "regenWait"
    /\ calls' = [calls EXCEPT ![k] =
          [@ EXCEPT !.pc = "prefs", !.made = NextCardId,
                    !.local = <<[calls[k].local[1] EXCEPT !.id = NextCardId,
                                                         !.status = "preview",
                                                         !.updated_at = Timestamp]>>]]
    /\ UNCHANGED <<store, skipPreview>>
    /\ ServerQuiet

\* useCardGeneration.generateCard up to its await
GenerateCall ==
    /\ Len(calls) < MaxCalls
    /\ store' = [store EXCEPT !.isGenerating = TRUE]
    /\ calls' = Append(calls, [IdleCall EXCEPT !.op = "generate", !.pc = "genWait",
                                              !.entered = TRUE])
    /\ UNCHANGED skipPreview
    /\ ServerQuiet

\* generateCard after its await: the mock card, then handleGenerationComplete up to
\* its request for the preferences
GenerateMake(k) ==
    /\ calls[k].pc = "genWait"
    /\ calls' = [calls EXCEPT ![k] =
          [@ EXCEPT !.pc = "prefs", !.made = NextCardId,
                    !.local = <<MockCard(NextCardId)>>]]
    /\ UNCHANGED <<store, skipPreview>>
    /\ ServerQuiet

\* handleGenerationComplete once preferencesApi.getPreferences() settled: approveCard
\* (up to its await) for skip_preview, openPreview otherwise and on an error
handleGenerationComplete(k) ==
    /\ calls[k].pc = "prefs"
    /\ \E outcome \in {"ok", "throw"} :
         LET card == calls[k].local[1]
             b == approveCardBegin(store, card.id)
         IN IF outcome = "throw" \/ ~skipPreview
            THEN /\ store' = Settle(openPreview(store, card), calls[k].op)
                 /\ calls' = [calls EXCEPT ![k] =
                       [@ EXCEPT !.pc = "done", !.prefs = outcome,
                                 !.skip = skipPreview]]
            ELSE IF b.entered
            THEN /\ store' = b.store
                 /\ calls' = [calls EXCEPT ![k] =
                       [@ EXCEPT !.pc = "approveWait", !.prefs = outcome,
                                 !.skip = skipPreview, !.local = b.local]]
            ELSE /\ store' = Settle(store, calls[k].op)
                 /\ calls' = [calls EXCEPT ![k] =
                       [@ EXCEPT !.pc = "done", !.prefs = outcome,
                                 !.skip = skipPreview]]
    /\ modal' = AfterCall(modal, k, calls[k].op, calls'[k].pc = "done")
    /\ CallQuiet

\* the Approve & Download button: setIsProcessing(true), then onApprove(card.id), which
\* is the store's approveCard up to its await
ClickApprove ==
    /\ Clickable(store, modal, "approve")
    /\ Len(calls) < MaxCalls
    /\ LET b == approveCardBegin(store, store.previewCard[1].id)
       IN /\ store' = b.store
          /\ calls' = Append(calls,
                [IdleCall EXCEPT !.op = "approve", !.cardId = store.previewCard[1].id,
                                 !.local = b.local, !.entered = b.entered,
                                 !.pc = "approveWait"])
    /\ modal' = [modal EXCEPT !.isProcessing = TRUE, !.call = Len(calls) + 1,
                              !.toast = ""]
    /\ CallQuiet

\* the Regenerate button: setIsProcessing(true), then onRegenerate(card.id), which is
\* the store's regenerateCard up to its await
ClickRegenerate ==
    /\ Clickable(store, modal, "regenerate")
    /\ Len(calls) < MaxCalls
    /\ store' = closePreview([store EXCEPT !.isRegenerating = TRUE])
    /\ calls' = Append(calls,
          [IdleCall EXCEPT !.op = "regenerate", !.cardId = store.previewCard[1].id,
                           !.local = store.previewCard, !.entered = TRUE,
                           !.pc = "regenWait"])
    /\ modal' = [modal EXCEPT !.isProcessing = TRUE, !.call = Len(calls) + 1,
                              !.toast = ""]
    /\ CallQuiet

\* the Close button (and the close button of the header): onClose
ClickClose ==
    /\ Clickable(store, modal, "close")
    /\ store' = closePreview(store)
    /\ UNCHANGED <<calls, modal>>
    /\ CallQuiet

\* the promise of onApprove rejects (the download behind it fails): the store's
\* finally clears isDownloading, the modal shows the error toast and stays open
ApproveRejects(k) ==
    /\ calls[k].pc = "approveWait"
    /\ modal.call = k
    /\ store' = Settle([store EXCEPT !.isDownloading = FALSE], calls[k].op)
    /\ calls' = [calls EXCEPT ![k].pc = "done"]
    /\ modal' = IF calls[k].op = "approve" THEN handleApproveDone(modal, FALSE)
                ELSE handleRegenerateDone(modal, FALSE)
    /\ CallQuiet

\* the user closes the preview modal
ClosePreview ==
    /\ store.isPreviewOpen
    /\ store' = closePreview(store)
    /\ UNCHANGED <<calls, skipPreview>>
    /\ ServerQuiet

\* usePreferences.toggleSkipPreview, once the update is stored
toggleSkipPreview ==
    /\ skipPreview' = ~skipPreview
    /\ UNCHANGED <<store, calls>>
    /\ ServerQuiet

\* ------------------------- useCardStore of the architecture (polling)
IdleStore ==
    [previewCard |-> <<>>, isPreviewOpen |-> FALSE, isGenerating |-> FALSE,
     isDownloading |-> FALSE, isRegenerating |-> FALSE]

IdlePoller ==
    [session |-> 0, user |-> Anon, isGenerating |-> FALSE, scheduled |-> FALSE,
     seen |-> "", previewCard |-> <<>>, isPreviewOpen |-> FALSE, error |-> FALSE]

\* startGeneration after cardService.generateCard answered request r: the session is
\* kept and checkGenerationStatus is called, or the error is kept
startGeneration(r) ==
    /\ poller = IdlePoller
    /\ reqs[r].pc = "done"
    /\ poller' = IF reqs[r].code = "OK"
                 THEN [IdlePoller EXCEPT !.session = reqs[r].session,
                                         !.user = reqs[r].user,
                                         !.isGenerating = TRUE,
                                         !.scheduled = TRUE]
                 ELSE [IdlePoller EXCEPT !.user = reqs[r].user, !.error = TRUE]
    /\ UNCHANGED <<tier, priorToday, openaiKeySet, storeFaulty, sessions, cards,
                   usage, reqs, pipe, skipPreview, store, calls, approveResult>>
    /\ PageQuiet

\* checkGenerationStatus on the response of one status request
checkGenerationStatus(p, response, skip) ==
    IF response.code # "OK"
    THEN [p EXCEPT !.error = TRUE, !.isGenerating = FALSE, !.scheduled = FALSE]
    ELSE LET session == response.body[1].session
             sessionCards == response.body[1].cards
             q == [p EXCEPT !.seen = session.status]
         IN IF session.status = "completed" /\ sessionCards # <<>>
            THEN [q EXCEPT !.isGenerating = FALSE, !.scheduled = FALSE,
                           !.previewCard = <<sessionCards[1]>>,
                           !.isPreviewOpen = ~skip]
            ELSE IF session.status = "failed"
            THEN [q EXCEPT !.error = TRUE, !.isGenerating = FALSE,
                           !.scheduled = FALSE]
            ELSE IF session.status = "processing"
            THEN [q EXCEPT !.scheduled = TRUE]
            ELSE [q EXCEPT !.scheduled = FALSE]

\* one poll: GET /api/cards/generation/[sessionId], then the branches of the store
Poll ==
    /\ poller.scheduled
    /\ \E bodyOk \in BOOLEAN :
         poller' = checkGenerationStatus(
                      poller, getSession(poller.user, poller.session, bodyOk),
                      skipPreview)
    /\ UNCHANGED <<tier, priorToday, openaiKeySet, storeFaulty, sessions, cards,
                   usage, reqs, pipe, skipPreview, store, calls, approveResult>>
    /\ PageQuiet

\* ------------------------------- /api/user/preferences (GET and PUT)
\* JSON values as the route sees them: the two booleans and a string
JsTrue == "true"
JsFalse == "false"
JsYes == "'yes'"
Absent == "absent"

typeof(v) == IF v \in {JsTrue, JsFalse} THEN "boolean" ELSE "string"

\* !v
Not(v) == IF v = JsFalse THEN JsTrue ELSE JsFalse

\* default_card_type is never written by the page and is left out
DEFAULT_USER_PREFERENCES == [skip_preview |-> JsFalse, theme |-> "light"]

\* { ...a, ...b } for a partial object b
Spread(a, b) ==
    [skip_preview |-> IF b.skip_preview # Absent THEN b.skip_preview ELSE a.skip_preview,
     theme |-> IF b.theme # Absent THEN b.theme ELSE a.theme]

\* request bodies: JSON objects with or without the two keys, null, and text that
\* is not JSON
ObjectBodies ==
    [kind : {"object"}, skip_preview : {Absent, JsTrue, JsFalse, JsYes},
     theme : {Absent, "dark"}]

Bodies ==
    ObjectBodies \cup [kind : {"null", "invalid"}, skip_preview : {Absent},
                       theme : {Absent}]

\* PUT: 500 when request.json() throws, 400 for a non-object, else the body is
\* spread over the stored preferences and a boolean skip_preview is assigned again
PUT(stored, body) ==
    IF body.kind = "invalid" THEN [stored |-> stored, status |-> 500, json |-> <<>>]
    ELSE IF body.kind = "null" THEN [stored |-> stored, status |-> 400, json |-> <<>>]
    ELSE LET merged == Spread(stored, body)
             ensured == IF body.skip_preview # Absent
                           /\ typeof(body.skip_preview) = "boolean"
                        THEN [merged EXCEPT !.skip_preview = body.skip_preview]
                        ELSE merged
         IN [stored |-> ensured, status |-> 200, json |-> <<ensured>>]

GET(stored) == [status |-> 200, json |-> <<stored>>]

\* a PUT of some other client of the route
RawPut ==
    /\ \E body \in Bodies : mockUserPreferences' = PUT(mockUserPreferences, body).stored
    /\ UNCHANGED <<tier, priorToday, openaiKeySet, storeFaulty, sessions, cards, usage,
                   reqs, pipe, skipPreview, poller, store, calls, approveResult,
                   prefs, modal>>

\* ------------------------------------ usePreferences, PreferencesForm
NoBody == [kind |-> "object", skip_preview |-> Absent, theme |-> Absent]

\* the query ['user', 'preferences'] (data, its refetch) and the mutation of the hook
\* (status, variables, context, its request); issuedAt and toast record what the
\* cache held when mutate was called and the toast of the last settled mutation
IdlePrefs ==
    [data |-> DEFAULT_USER_PREFERENCES, fetch |-> "idle", fetched |-> <<>>,
     status |-> "idle", variables |-> NoBody, context |-> <<>>, issuedAt |-> <<>>,
     request |-> "none", response |-> 0, toast |-> ""]

InitPage ==
    /\ mockUserPreferences = DEFAULT_USER_PREFERENCES
    /\ prefs = IdlePrefs
    /\ modal = IdleModal

\* onMutate: cancel the refetch in flight, snapshot the cache, merge optimistically
onMutate(q, newPreferences) ==
    [q EXCEPT !.fetch = "idle", !.fetched = <<>>,
              !.context = <<q.data>>,
              !.data = Spread(q.data, newPreferences)]

\* an error handler that shows the toast and leaves the cache as it is
onErrorToastOnly(q) == [q EXCEPT !.toast = "error"]

\* onError: put context.previousPreferences back, error toast
onError(q) == [q EXCEPT !.data = q.context[1], !.toast = "error"]

\* onSuccess: the success toast; the cache is not written
onSuccess(q) == [q EXCEPT !.toast = "success"]

\* onSettled: invalidateQueries starts a refetch
onSettled(q) == [q EXCEPT !.fetch = "sent", !.fetched = <<>>]

PrefsOnly ==
    UNCHANGED <<tier, priorToday, openaiKeySet, storeFaulty, sessions, cards, usage,
                reqs, pipe, skipPreview, poller, store, calls, approveResult, modal>>

\* the switch of PreferencesForm (disabled while isUpdating): toggleSkipPreview calls
\* mutate, which runs onMutate and sends the PUT
ToggleSwitch ==
    /\ prefs.status # "pending"
    /\ LET newPreferences ==
              [NoBody EXCEPT !.skip_preview = Not(prefs.data.skip_preview)]
       IN prefs' = [onMutate(prefs, newPreferences) EXCEPT
                       !.status = "pending", !.variables = newPreferences,
                       !.issuedAt = <<prefs.data>>, !.request = "sent",
                       !.response = 0, !.toast = ""]
    /\ UNCHANGED mockUserPreferences
    /\ PrefsOnly

\* the route handles the PUT of the hook
PutArrives ==
    /\ prefs.status = "pending"
    /\ prefs.request = "sent"
    /\ LET r == PUT(mockUserPreferences, prefs.variables)
       IN /\ mockUserPreferences' = r.stored
          /\ prefs' = [prefs EXCEPT !.request = "answered", !.response = r.status]
    /\ PrefsOnly

\* the promise of mutationFn settles: the answer arrived with response.ok, or the
\* request failed; then onSuccess or onError, and onSettled
MutationSettle ==
    /\ prefs.status = "pending"
    /\ \E delivered \in BOOLEAN :
         /\ delivered => prefs.request = "answered"
         /\ prefs' =
              IF delivered /\ prefs.response = 200
              THEN [onSettled(onSuccess(prefs)) EXCEPT !.status = "success",
                                                       !.request = "none"]
              ELSE [onSettled(onError(prefs)) EXCEPT !.status = "error",
                                                     !.request = "none"]
    /\ UNCHANGED mockUserPreferences
    /\ PrefsOnly

\* the route handles the GET of the refetch
GetArrives ==
    /\ prefs.fetch = "sent"
    /\ prefs' = [prefs EXCEPT !.fetch = "answered",
                              !.fetched = GET(mockUserPreferences).json]
    /\ UNCHANGED mockUserPreferences
    /\ PrefsOnly

\* the refetch settles: its data replaces the cache, or it failed and the data stays
QuerySettle ==
    /\ prefs.fetch \in {"sent", "answered"}
    /\ \E delivered \in BOOLEAN :
         /\ delivered => prefs.fetch = "answered"
         /\ prefs' = IF delivered
                     THEN [prefs EXCEPT !.data = prefs.fetched[1], !.fetch = "idle",
                                        !.fetched = <<>>]
                     ELSE [prefs EXCEPT !.fetch = "idle", !.fetched = <<>>]
    /\ UNCHANGED mockUserPreferences
    /\ PrefsOnly

\* ------------------------------------------------------------------- Init
TierChoices == TierValues \cup {NoRow}

\* sessions the user created earlier today: around the limit of the tier
PriorChoices(t) ==
    LET l == quotaLimits(IF t = NoRow THEN "free" ELSE t)
    IN IF l = Undefined THEN {0, PremiumLimit} ELSE {l - 2, l - 1, l}

InitStores ==
    /\ storeFaulty = FALSE
    /\ sessions = <<>>
    /\ cards = <<>>
    /\ usage = [u \in Users |-> [cards_generated |-> 0, total_ai_cost |-> 0]]
    /\ reqs = [r \in 1..MaxRequests |-> IdleReq]
    /\ pipe = <<>>

\* a browser that has not started anything, with the default preferences
InitClient ==
    /\ skipPreview = FALSE
    /\ poller = IdlePoller
    /\ store = IdleStore
    /\ calls = <<>>
    /\ approveResult = NoApprove
    /\ InitPage

\* free-tier users one or two sessions below their daily limit
Init ==
    /\ tier = [u \in Users |-> "free"]
    /\ priorToday \in [Users -> {FreeLimit - 2, FreeLimit - 1}]
    /\ openaiKeySet \in BOOLEAN
    /\ InitStores
    /\ InitClient

\* every tier a user row can hold, with the day's count around the tier's limit
InitQuota ==
    /\ tier \in [Users -> TierChoices]
    /\ priorToday \in [Users -> 0..PremiumLimit]
    /\ \A u \in Users : priorToday[u] \in PriorChoices(tier[u])
    /\ openaiKeySet = TRUE
    /\ InitStores
    /\ InitClient

Next ==
    \/ \E r \in 1..MaxRequests : PostValidate(r)
    \/ \E r \in 1..MaxRequests : PostCheckQuota(r)
    \/ \E r \in 1..MaxRequests : PostInsert(r)
    \/ \E s \in SessionIds : PipeProcessing(s)
    \/ \E s \in SessionIds : PipeGenerate(s)
    \/ \E s \in SessionIds : PipeInsertCard(s)
    \/ \E s \in SessionIds : PipeComplete(s)
    \/ \E s \in SessionIds : PipeUsage(s)
    \/ \E s \in SessionIds : PipeCatch(s)
    \/ \E s \in SessionIds : FailureCallback(s)

Spec == Init /\ [][Next]_vars

\* the request handler alone, over every tier: the pipelines it starts do not run
NextQuota ==
    \/ \E r \in 1..MaxRequests : PostValidate(r)
    \/ \E r \in 1..MaxRequests : PostCheckQuota(r)
    \/ \E r \in 1..MaxRequests : PostInsert(r)

SpecQuota == InitQuota /\ [][NextQuota]_vars

\* concurrent generate calls while every supabase lookup succeeds
NextRace ==
    \/ \E r \in 1..MaxRequests : PostValidate(r)
    \/ \E r \in 1..MaxRequests : CheckQuotaStep(r, "ok", "ok")
    \/ \E r \in 1..MaxRequests : PostInsert(r)

SpecRace == InitQuota /\ [][NextRace]_vars

\* a session store that may reject any write (a constraint, a policy, an outage)
InitFaulty ==
    /\ tier = [u \in Users |-> "free"]
    /\ priorToday \in [Users -> {FreeLimit - 2, FreeLimit - 1}]
    /\ openaiKeySet \in BOOLEAN
    /\ storeFaulty = TRUE
    /\ sessions = <<>>
    /\ cards = <<>>
    /\ usage = [u \in Users |-> [cards_generated |-> 0, total_ai_cost |-> 0]]
    /\ reqs = [r \in 1..MaxRequests |-> IdleReq]
    /\ pipe = <<>>
    /\ InitClient

\* one step of the pipeline of session s
PipeStep(s) ==
    \/ PipeProcessing(s)
    \/ PipeGenerate(s)
    \/ PipeInsertCard(s)
    \/ PipeComplete(s)
    \/ PipeUsage(s)
    \/ PipeCatch(s)
    \/ FailureCallback(s)

\* one generate call and its pipeline
NextFaulty ==
    \/ PostValidate(1)
    \/ PostCheckQuota(1)
    \/ PostInsert(1)
    \/ \E s \in SessionIds : PipeProcessing(s)
    \/ \E s \in SessionIds : PipeGenerate(s)
    \/ \E s \in SessionIds : PipeInsertCard(s)
    \/ \E s \in SessionIds : PipeComplete(s)
    \/ \E s \in SessionIds : PipeUsage(s)
    \/ \E s \in SessionIds : PipeCatch(s)
    \/ \E s \in SessionIds : FailureCallback(s)

\* the process does not crash: every awaited call of a started pipeline settles
\* and the pipeline takes its next step
SpecFaulty ==
    /\ InitFaulty
    /\ [][NextFaulty]_vars
    /\ \A s \in 1..MaxRequests : WF_vars(s \in SessionIds /\ PipeStep(s))

\* one browser polling a session, with either preference
InitPoll ==
    /\ tier = [u \in Users |-> "free"]
    /\ priorToday = [u \in Users |-> FreeLimit - 2]
    /\ openaiKeySet = TRUE
    /\ InitStores
    /\ skipPreview \in BOOLEAN
    /\ poller = IdlePoller
    /\ store = IdleStore
    /\ calls = <<>>
    /\ approveResult = NoApprove
    /\ InitPage

\* the browser's generate call (the first request), its pipeline, and its polls
NextPoll ==
    \/ PostValidate(1)
    \/ PostCheckQuota(1)
    \/ PostInsert(1)
    \/ \E s \in SessionIds : PipeProcessing(s)
    \/ \E s \in SessionIds : PipeGenerate(s)
    \/ \E s \in SessionIds : PipeInsertCard(s)
    \/ \E s \in SessionIds : PipeComplete(s)
    \/ \E s \in SessionIds : PipeUsage(s)
    \/ \E s \in SessionIds : PipeCatch(s)
    \/ \E s \in SessionIds : FailureCallback(s)
    \/ startGeneration(1)
    \/ Poll

SpecPoll == InitPoll /\ [][NextPoll]_vars

Payload1 == CHOOSE d \in Payloads : TRUE

UserSeq == <<"u1", "u2">>

\* the state of the server after each user's generate call completed with a card
ServedSession(u) ==
    [NewSession(u, Payload1) EXCEPT !.status = "completed",
                                   !.ai_costs = calculateCosts(TextTokens, 0),
                                   !.completed_at = Timestamp]

ServedPipe(u, c) ==
    [IdlePipe EXCEPT !.pc = "done", !.data = Payload1, !.user = u, !.card = c,
                     !.costs = calculateCosts(TextTokens, 0),
                     !.calls = [text |-> 1, moderation |-> 1, images |-> 0],
                     !.textOutcome = "ok", !.modOutcome = "pass",
                     !.usageOutcome = "ok"]

Served ==
    /\ sessions = [i \in 1..2 |-> ServedSession(UserSeq[i])]
    /\ pipe = [i \in 1..2 |-> ServedPipe(UserSeq[i], i)]
    /\ cards = [i \in 1..2 |-> NewCard(i, ServedPipe(UserSeq[i], i))]
    /\ usage = [u \in Users |->
                  [cards_generated |-> 1,
                   total_ai_cost |-> calculateCosts(TextTokens, 0).total_cost_usd]]
    /\ reqs = [r \in 1..MaxRequests |->
                 IF r <= 2
                 THEN [IdleReq EXCEPT !.pc = "done", !.user = UserSeq[r],
                                      !.data = Payload1, !.code = "OK", !.session = r]
                 ELSE IdleReq]

\* the browser's card store and the approve route, over two stored preview cards
InitStore ==
    /\ tier = [u \in Users |-> "free"]
    /\ priorToday = [u \in Users |-> FreeLimit - 2]
    /\ openaiKeySet = TRUE
    /\ storeFaulty = FALSE
    /\ Served
    /\ skipPreview \in BOOLEAN
    /\ poller = IdlePoller
    /\ store = IdleStore
    /\ calls = <<>>
    /\ approveResult = NoApprove
    /\ InitPage

NextStore ==
    \/ RepoApprove
    \/ ApproveCall
    \/ \E k \in CallIds : ApproveFinish(k)
    \/ RegenerateCall
    \/ \E k \in CallIds : RegenerateMake(k)
    \/ GenerateCall
    \/ \E k \in CallIds : GenerateMake(k)
    \/ \E k \in CallIds : handleGenerationComplete(k)
    \/ ClosePreview
    \/ toggleSkipPreview

SpecStore == InitStore /\ [][NextStore]_vars

\* the preview modal over the card store: cards are generated, and the user acts
\* on the previewed card through the buttons of the modal
NextModal ==
    \/ GenerateCall
    \/ \E k \in CallIds : GenerateMake(k)
    \/ \E k \in CallIds : handleGenerationComplete(k)
    \/ ClickApprove
    \/ ClickRegenerate
    \/ ClickClose
    \/ \E k \in CallIds : ApproveFinish(k)
    \/ \E k \in CallIds : ApproveRejects(k)
    \/ \E k \in CallIds : RegenerateMake(k)

SpecModal == InitStore /\ [][NextModal]_vars

\* the preferences page of one browser, and other clients of the route
InitPrefs ==
    /\ tier = [u \in Users |-> "free"]
    /\ priorToday = [u \in Users |-> FreeLimit - 2]
    /\ openaiKeySet = TRUE
    /\ InitStores
    /\ InitClient

NextPrefs ==
    \/ RawPut
    \/ ToggleSwitch
    \/ PutArrives
    \/ MutationSettle
    \/ GetArrives
    \/ QuerySettle

SpecPrefs == InitPrefs /\ [][NextPrefs]_vars

\* ----------------------------------------------------------------- claims
Terminal == {"completed", "failed"}

Rank(status) ==
    CASE status = "pending" -> 0
      [] status = "processing" -> 1
      [] status \in Terminal -> 2

\* C1: in every step, under every interleaving of the pipeline's writes and the
\* request handler's failure callback, a session's status never moves backward in
\* the order pending, processing, terminal, and a completed or failed session
\* keeps its status.
C1_StatusMonotonic ==
    [][\A s \in SessionIds :
          /\ Rank(sessions'[s].status) >= Rank(sessions[s].status)
          /\ sessions[s].status \in Terminal => sessions'[s].status = sessions[s].status
      ]_vars

\* both the catch block and the failure callback have written failed
C1_Witness ==
    \E s \in SessionIds :
        /\ pipe[s].pc = "done"
        /\ pipe[s].calls.text = 1
        /\ sessions[s].status = "failed"

C4_Isolation ==
    \A sid \in SessionIds, who \in Users \cup {Anon}, bodyOk \in BOOLEAN :
        who # sessions[sid].user_id =>
            /\ getSession(who, sid, bodyOk).body = <<>>
            /\ validateRequest(who, bodyOk) = "ok" =>
                  getSession(who, sid, bodyOk).code = "NOT_FOUND"

C4_Witness ==
    \E sid \in SessionIds, who \in Users :
        /\ who # sessions[sid].user_id
        /\ sessions[sid].status = "completed"
        /\ CardsOf(sid) # <<>>
        /\ getSession(sessions[sid].user_id, sid, TRUE).code = "OK"
        /\ getSession(who, sid, TRUE).code = "NOT_FOUND"

\* text generation and moderation succeeded and the card was inserted
CardPersisted(s) ==
    /\ pipe[s].textOutcome = "ok"
    /\ pipe[s].modOutcome = "pass"
    /\ pipe[s].card # 0

\* C5: whatever subset of the scene image calls fails, once text generation,
\* moderation and the card insert have succeeded the session is never failed, it is
\* completed when the pipeline ends, and the card holds every scene, with an empty
\* image_url exactly on the scenes whose image call failed.
C5_ImageFailureAbsorbed ==
    \A s \in SessionIds :
        CardPersisted(s) =>
            /\ sessions[s].status # "failed"
            /\ pipe[s].pc = "done" => sessions[s].status = "completed"
            /\ LET scenes == cards[pipe[s].card].content.scenes
               IN /\ cards[pipe[s].card].session_id = s
                  /\ Len(scenes) = Len(pipe[s].imgCalls)
                  /\ \A i \in 1..Len(scenes) :
                        (scenes[i].image_url = "") <=> ~pipe[s].imgCalls[i]

\* every image call of a session with MaxScenes scenes failed
C5_Witness ==
    \E s \in SessionIds :
        /\ CardPersisted(s)
        /\ pipe[s].pc = "done"
        /\ Len(pipe[s].imgCalls) = MaxScenes
        /\ \A i \in 1..MaxScenes : ~pipe[s].imgCalls[i]
        /\ sessions[s].status = "completed"

\* the limit of the user's tier in the quota table
TierLimit(u) == quotaLimits(tier[u])

\* request r leaves the quota check in this step
QuotaChecked(r) == reqs[r].pc = "quota" /\ reqs'[r].pc # "quota"

\* request r inserts a pending session of its user and starts its pipeline in this step
CreatesSession(r) ==
    /\ reqs'[r].pc = "done"
    /\ reqs'[r].code = "OK"
    /\ Len(sessions') = Len(sessions) + 1
    /\ reqs'[r].session = Len(sessions')
    /\ sessions'[Len(sessions')].user_id = reqs[r].user
    /\ sessions'[Len(sessions')].status = "pending"
    /\ Len(pipe') = Len(sessions')

\* C6: when checkUserQuota disallows a generate call, the call ends at once with
\* QUOTA_EXCEEDED, it has no session, and that step leaves the stored sessions, the
\* cards and the pipelines as they were; a rejected request never gets a session.
C6_QuotaRejected ==
    /\ [][\A r \in 1..MaxRequests :
             (/\ QuotaChecked(r)
              /\ ~checkUserQuota(reqs[r].user, reqs'[r].tierLookup,
                                 reqs'[r].countLookup).allowed)
             => /\ reqs'[r].pc = "done"
                /\ reqs'[r].code = "QUOTA_EXCEEDED"
                /\ reqs'[r].session = 0
                /\ sessions' = sessions
                /\ cards' = cards
                /\ pipe' = pipe
         ]_vars
    /\ [](\A r \in 1..MaxRequests :
             reqs[r].code = "QUOTA_EXCEEDED" =>
                /\ reqs[r].pc = "done"
                /\ reqs[r].session = 0
                /\ \A s \in SessionIds : \A q \in 1..MaxRequests :
                      reqs[q].session = s => q # r)

\* a call is rejected while sessions and a card of earlier calls are stored
C6_Witness ==
    \E r \in 1..MaxRequests :
        /\ reqs[r].code = "QUOTA_EXCEEDED"
        /\ Len(sessions) > 0
        /\ Len(cards) > 0

\* C7: with both lookups successful and a tier that has a daily limit L, a generate
\* call that finds exactly L sessions of the user today is rejected with
\* QUOTA_EXCEEDED, one that finds L - 1 or fewer goes on to the insert, and the
\* insert creates a pending session of that user.
C7_QuotaBoundary ==
    [][\A r \in 1..MaxRequests :
          /\ (/\ QuotaChecked(r)
              /\ reqs'[r].tierLookup = "ok"
              /\ reqs'[r].countLookup = "ok"
              /\ tier[reqs[r].user] \in TierValues
              /\ TierLimit(reqs[r].user) # Undefined)
             => /\ TodaySessions(reqs[r].user) = TierLimit(reqs[r].user)
                   => reqs'[r].pc = "done" /\ reqs'[r].code = "QUOTA_EXCEEDED"
                /\ TodaySessions(reqs[r].user) < TierLimit(reqs[r].user)
                   => reqs'[r].pc = "insert"
          /\ (reqs[r].pc = "insert" /\ reqs'[r].pc # "insert") => CreatesSession(r)
      ]_vars

\* a user one below the limit had a call accepted and the next call rejected at L
C7_Witness ==
    \E r1 \in 1..MaxRequests, r2 \in 1..MaxRequests :
        /\ reqs[r1].code = "OK"
        /\ reqs[r1].session # 0
        /\ reqs[r2].user = reqs[r1].user
        /\ tier[reqs[r2].user] \in TierValues
        /\ priorToday[reqs[r2].user] = TierLimit(reqs[r2].user) - 1
        /\ reqs[r2].code = "QUOTA_EXCEEDED"
        /\ reqs[r2].tierLookup = "ok"
        /\ reqs[r2].countLookup = "ok"
        /\ reqs[r2].seen = TierLimit(reqs[r2].user)

\* C8: whenever the tier lookup or the count lookup of the quota check errors
\* (returned or thrown), the call is allowed and goes on to create a pending
\* session, whatever the user's number of sessions today.
C8_FailOpen ==
    [][\A r \in 1..MaxRequests :
          /\ (/\ QuotaChecked(r)
              /\ (reqs'[r].tierLookup # "ok" \/ reqs'[r].countLookup # "ok"))
             => reqs'[r].pc = "insert"
          /\ (reqs[r].pc = "insert" /\ reqs'[r].pc # "insert") => CreatesSession(r)
      ]_vars

NonEmptyMessage(msg) == Len(msg) > 0 /\ \E i \in 1..Len(msg) : msg[i] # ""

Contains(msg, piece) == \E i \in 1..Len(msg) : msg[i] = piece

TextFailed(s) == pipe[s].textOutcome \in TextOutcomes \ {"ok"}

\* C9: when text generation fails or its output does not parse, no moderation or
\* image call is made and no card is ever stored for the session; the session is
\* processing until the catch block writes, and failed with a non-empty
\* error_message from then on.
C9_TextFailure ==
    \A s \in SessionIds :
        TextFailed(s) =>
            /\ pipe[s].calls.moderation = 0
            /\ pipe[s].calls.images = 0
            /\ pipe[s].card = 0
            /\ CardsOf(s) = <<>>
            /\ pipe[s].pc \in {"catch", "callback", "done"}
            /\ pipe[s].pc = "catch" => sessions[s].status = "processing"
            /\ pipe[s].pc \in {"callback", "done"} =>
                  /\ sessions[s].status = "failed"
                  /\ NonEmptyMessage(sessions[s].error_message)

C9_Witness ==
    \E s \in SessionIds :
        /\ pipe[s].textOutcome = "unparseable"
        /\ pipe[s].pc = "done"
        /\ sessions[s].status = "failed"
        /\ sessions[s].error_message = MsgParse

Flagged(s) == pipe[s].textOutcome = "ok" /\ pipe[s].modOutcome = "flagged"

\* C10: when moderation flags the content, no image call is made, no card is
\* stored and the pipeline is not run again; the session ends failed with an
\* error_message that contains "policy violation" and every flagged category, and
\* its retry_count is 0.
C10_ModerationFlag ==
    \A s \in SessionIds :
        Flagged(s) =>
            /\ pipe[s].calls = [text |-> 1, moderation |-> 1, images |-> 0]
            /\ pipe[s].card = 0
            /\ CardsOf(s) = <<>>
            /\ sessions[s].retry_count = 0
            /\ pipe[s].pc \in {"catch", "callback", "done"}
            /\ pipe[s].pc \in {"callback", "done"} =>
                  /\ sessions[s].status = "failed"
                  /\ Contains(sessions[s].error_message, "policy violation")
                  /\ \A c \in pipe[s].modCats : Contains(sessions[s].error_message, c)

C10_Witness ==
    \E s \in SessionIds :
        /\ Flagged(s)
        /\ pipe[s].modCats = Categories
        /\ pipe[s].pc = "done"
        /\ sessions[s].status = "failed"

\* C11: a completed session has exactly one card of its own in the store, and the
\* owner's status check returns the session with that card nested in it; the card
\* is stored before the completed status is written.
C11_CompletedHasCard ==
    \A s \in SessionIds :
        sessions[s].status = "completed" =>
            LET response == getSession(sessions[s].user_id, s, TRUE)
            IN /\ Len(CardsOf(s)) = 1
               /\ pipe[s].card # 0
               /\ cards[pipe[s].card].session_id = s
               /\ response.code = "OK"
               /\ response.body # <<>>
               /\ response.body[1].session.status = "completed"
               /\ response.body[1].cards = <<cards[pipe[s].card]>>

\* two completed sessions, each returned with its own card
C11_Witness ==
    \E s1 \in SessionIds, s2 \in SessionIds :
        /\ s1 # s2
        /\ sessions[s1].status = "completed"
        /\ sessions[s2].status = "completed"
        /\ getSession(sessions[s1].user_id, s1, TRUE).body[1].cards # <<>>
        /\ getSession(sessions[s1].user_id, s1, TRUE).body[1].cards
              # getSession(sessions[s2].user_id, s2, TRUE).body[1].cards

UsageFailed(s) == pipe[s].usageOutcome \in {"error", "throw"}

\* C12: the usage update that follows completion, whether its upsert succeeds,
\* returns an error or throws, leaves the session row and the cards as they were;
\* a session whose usage update failed stays completed with its completed_at, its
\* ai_costs and its card.
C12_UsageFailureKeepsCompleted ==
    /\ [][\A s \in SessionIds :
             (pipe[s].pc = "usage" /\ pipe'[s].pc # "usage") =>
                /\ sessions'[s] = sessions[s]
                /\ cards' = cards
                /\ pipe'[s].pc = "done"
         ]_vars
    /\ [](\A s \in SessionIds :
             UsageFailed(s) =>
                /\ sessions[s].status = "completed"
                /\ sessions[s].completed_at = Timestamp
                /\ sessions[s].ai_costs = pipe[s].costs
                /\ CardsOf(s) = <<NewCard(s, pipe[s])>>)

\* the upsert threw after a run that generated scenes and cost something
C12_Witness ==
    \E s \in SessionIds :
        /\ pipe[s].usageOutcome = "throw"
        /\ pipe[s].pc = "done"
        /\ sessions[s].status = "completed"
        /\ sessions[s].ai_costs.image_generations = MaxScenes

\* the sessions of user u whose usage upsert was applied
Counted(u) ==
    {s \in SessionIds : pipe[s].user = u /\ pipe[s].usageOutcome = "ok"}

\* C13: the day's usage counter of a user equals the number of that user's
\* completed sessions whose usage update was applied.
C13_AtomicIncrement ==
    \A u \in Users : usage[u].cards_generated = Cardinality(Counted(u))

\* C19: a generate request of an unauthenticated caller ends with UNAUTHORIZED
\* and without a session, whatever its body.
C19_UnauthenticatedIs401 ==
    \A r \in 1..MaxRequests :
        (reqs[r].pc = "done" /\ reqs[r].user = Anon) =>
            /\ reqs[r].code = "UNAUTHORIZED"
            /\ reqs[r].session = 0

\* C20: a session whose card insert failed ends failed with retry_count
\* incremented by exactly one.
C20_RetryCountIncremented ==
    \A s \in SessionIds :
        (pipe[s].pc = "done" /\ pipe[s].err = MsgSaveCard) =>
            /\ sessions[s].status = "failed"
            /\ sessions[s].retry_count = 1

\* C17: a poll that observes pending or processing is followed by another poll.
C17_PollUntilTerminal ==
    (poller.session # 0 /\ poller.seen \in {"pending", "processing"})
        => poller.scheduled

\* approveCard of the store run alone from its guard to its finally block
ApproveRun(st, c) ==
    LET b == approveCardBegin(st, c)
    IN IF b.entered THEN approveCardEnd(b.store, b.local[1]) ELSE b.store

CardRank(status) ==
    CASE status = "generating" -> 0
      [] status = "preview" -> 1
      [] status = "approved" -> 2
      [] status = "downloaded" -> 3

\* C15: in every step the status of a card, on the server and in the browser's
\* store, stays where it is or moves forward in the order generating, preview,
\* approved, downloaded.
C15_CardStatusForward ==
    [][/\ \A c \in 1..Len(cards) :
             CardRank(cards'[c].status) >= CardRank(cards[c].status)
       /\ (/\ store.previewCard # <<>>
           /\ store'.previewCard # <<>>
           /\ store'.previewCard[1].id = store.previewCard[1].id)
          => CardRank(store'.previewCard[1].status)
                >= CardRank(store.previewCard[1].status)
      ]_vars

\* C16: when regenerate of a card in preview has run, a new pending session exists
\* with the type of the original card, and the stored cards are as they were.
C16_RegenerateStartsSession ==
    [][\A k \in CallIds :
          (/\ calls[k].pc = "regenWait"
           /\ calls'[k].pc # "regenWait"
           /\ calls[k].local[1].status = "preview")
          => /\ Len(sessions') = Len(sessions) + 1
             /\ sessions'[Len(sessions')].status = "pending"
             /\ sessions'[Len(sessions')].generation_type = "single_word_card"
             /\ cards' = cards
      ]_vars

\* C18: when a made card is handed over and the preferences were read, then with
\* skip_preview the card is approved without the modal being opened and ends
\* downloaded, and without skip_preview the modal opens on the card in preview.
C18_SkipPreviewAutoApproves ==
    [][\A k \in CallIds :
          /\ (/\ calls[k].pc = "prefs"
              /\ calls'[k].pc # "prefs"
              /\ calls'[k].prefs = "ok")
             => IF calls'[k].skip
                THEN /\ calls'[k].pc = "approveWait"
                     /\ store'.previewCard =
                           <<[calls[k].local[1] EXCEPT !.status = "approved"]>>
                     /\ store'.isPreviewOpen = store.isPreviewOpen
                ELSE /\ store'.previewCard = <<calls[k].local[1]>>
                     /\ store'.previewCard[1].status = "preview"
                     /\ store'.isPreviewOpen
          /\ (calls[k].pc = "approveWait" /\ calls'[k].pc = "done")
             => store'.previewCard[1].status = "downloaded"
      ]_vars

\* moderation of session s's text came back unflagged
ModerationPassed(s) ==
    /\ pipe[s].textOutcome = "ok"
    /\ pipe[s].modOutcome = "pass"
    /\ pipe[s].calls.text = 1
    /\ pipe[s].calls.moderation = 1

\* C21: within one session's pipeline no scene image call is issued and no
\* flash card is persisted before the moderation call on the generated text has
\* returned unflagged; after a flagged or failed moderation (or a failed text
\* step) the pipeline issues no image call and persists no card.
C21_ModerationBeforeImagesAndCard ==
    \A s \in SessionIds :
       /\ (pipe[s].calls.images > 0 \/ pipe[s].card # 0 \/ CardsOf(s) # <<>>
             \/ pipe[s].pc \in {"insertCard", "complete", "usage"})
            => ModerationPassed(s)
       /\ (pipe[s].modOutcome \in {"flagged", "error"} /\ pipe[s].textOutcome = "ok")
            => /\ pipe[s].calls.moderation = 1
               /\ pipe[s].calls.images = 0
               /\ pipe[s].card = 0
               /\ CardsOf(s) = <<>>
               /\ pipe[s].pc \in {"catch", "callback", "done"}

\* one session stopped at a failed moderation call without image call or card,
\* another went through moderation, two image calls and the card insert
C21_Witness ==
    \E s, q \in SessionIds :
       /\ pipe[s].textOutcome = "ok" /\ pipe[s].modOutcome = "error"
       /\ pipe[s].pc = "done" /\ pipe[s].calls.images = 0 /\ CardsOf(s) = <<>>
       /\ ModerationPassed(q) /\ pipe[q].calls.images = MaxScenes
       /\ Len(CardsOf(q)) = 1

\* the scenes of session s whose image call succeeded
SucceededImages(s) ==
    Cardinality({i \in 1..Len(pipe[s].imgCalls) : pipe[s].imgCalls[i]})

\* C22: the ai_costs recorded on a completed session have image_generations
\* equal to the number of scenes whose image call succeeded (the scenes with a
\* non-empty image_url), and total_cost_usd is computed from that count and the
\* text token usage.
C22_CostsCountSucceededImages ==
    \A s \in SessionIds :
       sessions[s].status = "completed"
         => /\ sessions[s].ai_costs.image_generations = SucceededImages(s)
            /\ sessions[s].ai_costs.image_generations =
                  Len(SelectSeq(pipe[s].scenes, LAMBDA sc : sc.image_url # ""))
            /\ sessions[s].ai_costs =
                  calculateCosts(generateTextContent(pipe[s].textOutcome,
                                                     Len(pipe[s].imgCalls)).tokens,
                                 SucceededImages(s))

\* the stored cards with card c in status st
WithStatus(cs, c, st) == [cs EXCEPT ![c].status = st]

\* C23: approve changes a card's status to approved only when the card's status
\* is preview, on the server and in the browser's store; approve by the owner on
\* a card whose status is generating does not make it approved.
C23_ApproveOnlyFromPreview ==
    /\ [][/\ \A c \in 1..Len(cards) :
                (cards[c].status # "approved" /\ cards'[c].status = "approved")
                   => cards[c].status = "preview"
          /\ (/\ store.previewCard # <<>>
              /\ store'.previewCard # <<>>
              /\ store'.previewCard[1].id = store.previewCard[1].id
              /\ store.previewCard[1].status # "approved"
              /\ store'.previewCard[1].status = "approved")
             => store.previewCard[1].status = "preview"
         ]_vars
    /\ [](\A c \in 1..Len(cards) :
             LET generating == WithStatus(cards, c, "generating")
             IN approveCard(generating, c, cards[c].user_id).cards[c].status
                   # "approved")

\* C24: approve(cardId, userId) by a user who does not own the card fails with
\* an error, returns no card and leaves every stored card as it was, whichever
\* status the card has.
C24_NonOwnerApproveRejected ==
    /\ [][(approveResult' # approveResult \/ cards' # cards)
            => LET r == approveResult'
               IN cards[r.cardId].user_id # r.userId
                    => /\ r.error
                       /\ r.card = <<>>
                       /\ cards' = cards
         ]_vars
    /\ [](\A c \in 1..Len(cards), u \in Users, st \in CardStatuses :
             LET before == WithStatus(cards, c, st)
                 result == approveCard(before, c, u)
             IN cards[c].user_id # u
                  => /\ result.error
                     /\ result.card = <<>>
                     /\ result.cards = before)

\* a user who does not own the card called approve on it after its owner had
\* approved it, and another card is still in preview
C24_Witness ==
    /\ approveResult.cardId \in 1..Len(cards)
    /\ cards[approveResult.cardId].user_id # approveResult.userId
    /\ approveResult.error
    /\ cards[approveResult.cardId].status = "approved"
    /\ \E c \in 1..Len(cards) : cards[c].status = "preview"

\* C28: for a user whose tier has daily limit L, the number of sessions of that
\* user created today never exceeds L while every lookup succeeds, however the
\* quota checks and the inserts of concurrent generate calls interleave.
C28_QuotaNeverExceeded ==
    \A u \in Users :
       (tier[u] \in TierValues /\ TierLimit(u) # Undefined)
          => TodaySessions(u) <= TierLimit(u)

\* C30: for every subscription tier a user row can hold, a quota check whose
\* lookups succeed applies a finite daily limit, and a user who already has as
\* many sessions today as the largest limit of any tier is rejected.
C30_EveryTierFinite ==
    [][\A r \in 1..MaxRequests :
          (/\ QuotaChecked(r)
           /\ reqs'[r].tierLookup = "ok"
           /\ reqs'[r].countLookup = "ok"
           /\ tier[reqs[r].user] \in TierValues)
          => /\ reqs'[r].limit # Undefined
             /\ TodaySessions(reqs[r].user) >= PremiumLimit
                  => reqs'[r].pc = "done" /\ reqs'[r].code = "QUOTA_EXCEEDED"
      ]_vars

\* C29: every session that has been created eventually reaches completed or
\* failed, whichever step of its pipeline fails and whichever status write the
\* session store rejects; no session stays pending or processing forever.
C29_EventuallyTerminal ==
    \A s \in 1..MaxRequests :
       [](s \in SessionIds
            => <>(s \in SessionIds /\ sessions[s].status \in Terminal))

\* the mutation of the preferences hook settles in this step
Settles(outcome) == prefs.status = "pending" /\ prefs'.status = outcome

\* C25: when a preference update fails, the cache is again what it was when the
\* update was issued and the error toast is shown; when it succeeds, the cache
\* holds the updated fields.
C25_OptimisticRollback ==
    [][/\ Settles("error")
            => /\ prefs'.data = prefs.issuedAt[1]
               /\ prefs'.toast = "error"
       /\ Settles("success")
            => /\ prefs.variables.skip_preview # Absent
               /\ prefs'.data.skip_preview = prefs.variables.skip_preview
               /\ prefs.variables.theme # Absent
                    => prefs'.data.theme = prefs.variables.theme
      ]_vars

\* an update that would have switched skip_preview off again failed after an
\* earlier one had switched it on: the cache is back at true, with the error toast
C25_Witness ==
    /\ prefs.status = "error"
    /\ prefs.toast = "error"
    /\ prefs.variables.skip_preview = JsFalse
    /\ prefs.issuedAt = <<[DEFAULT_USER_PREFERENCES EXCEPT !.skip_preview = JsTrue]>>
    /\ prefs.data = prefs.issuedAt[1]

\* C27: after any sequence of PUT requests, also ones whose skip_preview is not a
\* boolean, the stored skip_preview (which the PUT answers, and a later GET) is a
\* boolean.
C27_SkipPreviewBoolean ==
    /\ typeof(mockUserPreferences.skip_preview) = "boolean"
    /\ typeof(GET(mockUserPreferences).json[1].skip_preview) = "boolean"

\* call k was started by a button of the modal and has not settled
ModalCallInFlight(cs, k) == cs[k].op \in {"approve", "regenerate"} /\ cs[k].pc # "done"

\* C26: while isDownloading, isRegenerating or the modal's isProcessing is true,
\* the Close, Regenerate and Approve controls are disabled; an approve or
\* regenerate started from the modal is the only one in flight and keeps
\* isProcessing true until it settles, so no second one starts before; and when
\* it settles, resolved or rejected, isProcessing is false again.
C26_ControlsDisabledInFlight ==
    /\ [](\A control \in Controls :
             isAnyActionLoading(store, modal)
                => /\ Disabled(store, modal, control)
                   /\ ~Clickable(store, modal, control))
    /\ [](Cardinality({k \in CallIds : ModalCallInFlight(calls, k)}) <= 1)
    /\ [](\A k \in CallIds :
             ModalCallInFlight(calls, k) => modal.call = k /\ modal.isProcessing)
    /\ [](modal.call = 0 => ~modal.isProcessing)
    /\ [][/\ (Len(calls') > Len(calls) /\ ModalCallInFlight(calls', Len(calls')))
               => ~isAnyActionLoading(store, modal)
          /\ (modal.call # 0 /\ modal'.call = 0)
               => /\ ~modal'.isProcessing
                  /\ modal'.toast \in {"success", "info", "error"}
                  /\ calls'[modal.call].pc = "done"
         ]_vars

\* an approve of the previewed card is in flight with every control disabled,
\* after an earlier approve of the same card was rejected and had settled
C26_Witness ==
    \E k1 \in CallIds, k2 \in CallIds :
        /\ k1 < k2
        /\ calls[k1].op = "approve" /\ calls[k2].op = "approve"
        /\ calls[k1].cardId = calls[k2].cardId
        /\ calls[k1].pc = "done" /\ calls[k2].pc = "approveWait"
        /\ modal.call = k2 /\ modal.isProcessing /\ store.isDownloading
        /\ Shown(store)
        /\ \A control \in Controls : ~Clickable(store, modal, control)

====
